---- MODULE Spec2Model ----
(***************************************************************************)
(* Model of the simple CSV transaction engine.                             *)
(*                                                                         *)
(*   model.rs    ClientState and its five operations                       *)
(*   service.rs  TransactionProcessor: the import/process loop, the        *)
(*               per-client transaction history and the export loop        *)
(*                                                                         *)
(* Decimal amounts are integers counted in the smallest unit.  An          *)
(* Option<Decimal> is a sequence of length 0 (None) or 1 (Some).  A        *)
(* Result is <<"Ok">> or <<"Err", e>>.                                     *)
(*                                                                         *)
(* Three specifications share the module:                                  *)
(*   Spec         the processor run of service.rs over an input stream     *)
(*   SpecAccount  one ClientState driven through its public methods, as    *)
(*                the unit tests of model.rs drive it                      *)
(*   SpecEither   every behaviour of Spec and every one of SpecAccount     *)
(***************************************************************************)
EXTENDS Integers, Sequences, FiniteSets, TLC

\* ------------------------------------------------------------------ bounds
MaxTx == 5          \* input records consumed by one run
MaxErrors == 2      \* failing records in one input
MaxFunding == 2     \* Deposit and Withdrawal records in one input
MaxCalls == 4       \* direct method calls on one ClientState

\* The ids and amounts the inputs are drawn from.  Client 1 uses two
\* transaction ids, client 2 one of them.
ClientIds == {1, 2}
TransactionIdsOf(client_id) == IF client_id = 1 THEN {1, 2} ELSE {1}
Amounts == {-1, 0, 1, 2}

\* ------------------------------------------------------------- model.rs
None == <<>>
Some(v) == <<v>>

Ok == <<"Ok">>
Err(e) == <<"Err", e>>
IsErr(r) == r[1] = "Err"

TransactionType == {"Deposit", "Withdrawal", "Dispute", "Resolve", "Chargeback"}

\* TransactionError
InvalidAmount(amount) == <<"InvalidAmount", amount>>
InsufficientFunds == <<"InsufficientFunds">>
AccountLocked == <<"AccountLocked">>

ClientState_new(client_id) ==
    [client_id |-> client_id, available |-> 0, held |-> 0, total |-> 0,
     locked |-> FALSE]

\* Each method yields the state it leaves behind and the Result it returns.
\* The definitions marked Mutant are the method with one plausible slip; no
\* specification uses them.

\* Mutant: deposit refuses a locked account.
deposit_checks_lock(self, amount) ==
    IF self.locked
    THEN [state |-> self, result |-> Err(AccountLocked)]
    ELSE IF amount < 0
    THEN [state |-> self, result |-> Err(InvalidAmount(amount))]
    ELSE [state |-> [self EXCEPT !.available = @ + amount,
                                 !.total = @ + amount],
          result |-> Ok]

deposit(self, amount) ==
    IF amount < 0
    THEN [state |-> self, result |-> Err(InvalidAmount(amount))]
    ELSE [state |-> [self EXCEPT !.available = @ + amount,
                                 !.total = @ + amount],
          result |-> Ok]

\* Mutant: withdraw does not look at the lock.
withdraw_ignores_lock(self, amount) ==
    IF amount < 0
    THEN [state |-> self, result |-> Err(InvalidAmount(amount))]
    ELSE IF self.available < amount
    THEN [state |-> self, result |-> Err(InsufficientFunds)]
    ELSE [state |-> [self EXCEPT !.available = @ - amount,
                                 !.total = @ - amount],
          result |-> Ok]

\* Mutant: withdraw subtracts before it checks the funds.
withdraw_subtracts_first(self, amount) ==
    IF self.locked
    THEN [state |-> self, result |-> Err(AccountLocked)]
    ELSE IF amount < 0
    THEN [state |-> self, result |-> Err(InvalidAmount(amount))]
    ELSE [state |-> [self EXCEPT !.available = @ - amount,
                                 !.total = @ - amount],
          result |-> IF self.available < amount
                     THEN Err(InsufficientFunds)
                     ELSE Ok]

\* Mutant: withdraw looks at the sign of the amount before the lock.
withdraw_checks_sign_first(self, amount) ==
    IF amount < 0
    THEN [state |-> self, result |-> Err(InvalidAmount(amount))]
    ELSE IF self.locked
    THEN [state |-> self, result |-> Err(AccountLocked)]
    ELSE IF self.available < amount
    THEN [state |-> self, result |-> Err(InsufficientFunds)]
    ELSE [state |-> [self EXCEPT !.available = @ - amount,
                                 !.total = @ - amount],
          result |-> Ok]

withdraw(self, amount) ==
    IF self.locked
    THEN [state |-> self, result |-> Err(AccountLocked)]
    ELSE IF amount < 0
    THEN [state |-> self, result |-> Err(InvalidAmount(amount))]
    ELSE IF self.available < amount
    THEN [state |-> self, result |-> Err(InsufficientFunds)]
    ELSE [state |-> [self EXCEPT !.available = @ - amount,
                                 !.total = @ - amount],
          result |-> Ok]

\* service.rs:145 calls this method under the name dispute_deposit.
\* Mutant: dispute refuses to take available below zero.
dispute_checks_funds(self, amount) ==
    IF amount < 0
    THEN [state |-> self, result |-> Err(InvalidAmount(amount))]
    ELSE IF self.available < amount
    THEN [state |-> self, result |-> Err(InsufficientFunds)]
    ELSE [state |-> [self EXCEPT !.available = @ - amount,
                                 !.held = @ + amount],
          result |-> Ok]

\* Mutant: dispute refuses a locked account.
dispute_checks_lock(self, amount) ==
    IF self.locked
    THEN [state |-> self, result |-> Err(AccountLocked)]
    ELSE IF amount < 0
    THEN [state |-> self, result |-> Err(InvalidAmount(amount))]
    ELSE [state |-> [self EXCEPT !.available = @ - amount,
                                 !.held = @ + amount],
          result |-> Ok]

\* Mutant: dispute moves the amount from held to available.
dispute_swapped(self, amount) ==
    IF amount < 0
    THEN [state |-> self, result |-> Err(InvalidAmount(amount))]
    ELSE [state |-> [self EXCEPT !.available = @ + amount,
                                 !.held = @ - amount],
          result |-> Ok]

dispute(self, amount) ==
    IF amount < 0
    THEN [state |-> self, result |-> Err(InvalidAmount(amount))]
    ELSE [state |-> [self EXCEPT !.available = @ - amount,
                                 !.held = @ + amount],
          result |-> Ok]

\* Mutant: resolve does not reject a negative amount.
resolve_unchecked_sign(self, amount) ==
    IF self.held < amount
    THEN [state |-> self, result |-> Err(InsufficientFunds)]
    ELSE [state |-> [self EXCEPT !.available = @ + amount,
                                 !.held = @ - amount],
          result |-> Ok]

\* Mutant: resolve releases the held funds without returning them.
resolve_keeps_available(self, amount) ==
    IF amount < 0
    THEN [state |-> self, result |-> Err(InvalidAmount(amount))]
    ELSE IF self.held < amount
    THEN [state |-> self, result |-> Err(InsufficientFunds)]
    ELSE [state |-> [self EXCEPT !.held = @ - amount],
          result |-> Ok]

resolve(self, amount) ==
    IF amount < 0
    THEN [state |-> self, result |-> Err(InvalidAmount(amount))]
    ELSE IF self.held < amount
    THEN [state |-> self, result |-> Err(InsufficientFunds)]
    ELSE [state |-> [self EXCEPT !.available = @ + amount,
                                 !.held = @ - amount],
          result |-> Ok]

\* Mutant: chargeback leaves total as it was.
chargeback_keeps_total(self, amount) ==
    IF amount < 0
    THEN [state |-> self, result |-> Err(InvalidAmount(amount))]
    ELSE IF self.held < amount
    THEN [state |-> self, result |-> Err(InsufficientFunds)]
    ELSE [state |-> [self EXCEPT !.held = @ - amount,
                                 !.locked = TRUE],
          result |-> Ok]

\* Mutant: chargeback leaves held as it is.
chargeback_keeps_held(self, amount) ==
    IF amount < 0
    THEN [state |-> self, result |-> Err(InvalidAmount(amount))]
    ELSE IF self.held < amount
    THEN [state |-> self, result |-> Err(InsufficientFunds)]
    ELSE [state |-> [self EXCEPT !.total = @ - amount,
                                 !.locked = TRUE],
          result |-> Ok]

chargeback(self, amount) ==
    IF amount < 0
    THEN [state |-> self, result |-> Err(InvalidAmount(amount))]
    ELSE IF self.held < amount
    THEN [state |-> self, result |-> Err(InsufficientFunds)]
    ELSE [state |-> [self EXCEPT !.held = @ - amount,
                                 !.total = @ - amount,
                                 !.locked = TRUE],
          result |-> Ok]

\* ----------------------------------------------------------- service.rs
\* ProcessingError
ImportError == <<"ImportError">>
ExportError == <<"ExportError">>
MissingAmount(transaction_id) == <<"MissingAmount", transaction_id>>
CannotDispute(transaction_id) == <<"CannotDispute", transaction_id>>
CannotResolveOrChargeBack(transaction_id) ==
    <<"CannotResolveOrChargeBack", transaction_id>>
TransactionError(transaction_id, error) ==
    <<"TransactionError", transaction_id, error>>

\* TransactionState
\* Mutant: a charged back transaction can be disputed again.
state_can_dispute_unless_disputed(state) == state # "Disputed"
state_can_dispute(state) == state = "Applied"
\* Mutant: an applied transaction can be resolved or charged back.
state_can_resolve_or_charge_back_applied(state) == state # "ChargedBack"
state_can_resolve_or_charge_back(state) == state = "Disputed"

TransactionInfo_new(amount, type) ==
    [amount |-> amount, state |-> "Applied", type |-> type]

\* Mutant: can_dispute does not look at the type of the record.
can_dispute_any_type(info) == state_can_dispute(info.state)
can_dispute(info) == info.type = "Deposit" /\ state_can_dispute(info.state)
can_resolve_or_charge_back(info) == state_can_resolve_or_charge_back(info.state)

\* transactions is a map: a function whose domain is the set of ids present.
EmptyMap == <<>>
ClientInfo_new(state) == [state |-> state, transactions |-> EmptyMap]

\* Mutant: insert keeps the value a key already has.
insert_keeps_existing(map, key, value) ==
    [k \in DOMAIN map \cup {key} |-> IF k \in DOMAIN map THEN map[k] ELSE value]

insert(map, key, value) ==
    [k \in DOMAIN map \cup {key} |-> IF k = key THEN value ELSE map[k]]

extract_amount(transaction) ==
    IF transaction.amount = None
    THEN Err(MissingAmount(transaction.transaction_id))
    ELSE <<"Ok", transaction.amount[1]>>

map_from_transaction_error(transaction_id, result) ==
    IF IsErr(result)
    THEN Err(TransactionError(transaction_id, result[2]))
    ELSE Ok

\* The Deposit and Withdrawal arms, after extract_amount: applied is what the
\* ClientState method called left behind and returned.  The method works on
\* client.state in place, so what it left behind stays also when `?` returns.
\* Mutant: the record is inserted before the result of the method is looked at.
apply_and_record_always_inserts(client, transaction, applied) ==
    LET mapped == map_from_transaction_error(transaction.transaction_id,
                                             applied.result)
    IN [client |->
           [state |-> applied.state,
            transactions |->
               insert(client.transactions, transaction.transaction_id,
                      TransactionInfo_new(transaction.amount[1],
                                          transaction.type))],
        result |-> mapped]

\* Mutant: a record that is replaced keeps its lifecycle state.
apply_and_record_keeps_lifecycle(client, transaction, applied) ==
    LET mapped == map_from_transaction_error(transaction.transaction_id,
                                             applied.result)
        id == transaction.transaction_id
        info == TransactionInfo_new(transaction.amount[1], transaction.type)
    IN IF IsErr(mapped)
       THEN [client |-> [client EXCEPT !.state = applied.state],
             result |-> mapped]
       ELSE [client |->
                [state |-> applied.state,
                 transactions |->
                    insert(client.transactions, id,
                           IF id \in DOMAIN client.transactions
                           THEN [info EXCEPT !.state =
                                    client.transactions[id].state]
                           ELSE info)],
             result |-> Ok]

apply_and_record(client, transaction, applied) ==
    LET mapped == map_from_transaction_error(transaction.transaction_id,
                                             applied.result)
    IN IF IsErr(mapped)
       THEN [client |-> [client EXCEPT !.state = applied.state],
             result |-> mapped]
       ELSE [client |->
                [state |-> applied.state,
                 transactions |->
                    insert(client.transactions, transaction.transaction_id,
                           TransactionInfo_new(transaction.amount[1],
                                               transaction.type))],
             result |-> Ok]

\* The Dispute, Resolve and Chargeback arms, once the record is found and
\* has passed its lifecycle check.
apply_and_mark(client, transaction, applied, new_state) ==
    LET mapped == map_from_transaction_error(transaction.transaction_id,
                                             applied.result)
    IN IF IsErr(mapped)
       THEN [client |-> [client EXCEPT !.state = applied.state],
             result |-> mapped]
       ELSE [client |->
                [state |-> applied.state,
                 transactions |->
                    [client.transactions
                        EXCEPT ![transaction.transaction_id].state = new_state]],
             result |-> Ok]

\* Mutant: a Deposit without amount is a deposit of zero.
process_deposit_missing_is_zero(client, transaction) ==
    IF transaction.amount = None
    THEN [client |-> [state |-> deposit(client.state, 0).state,
                      transactions |->
                         insert(client.transactions,
                                transaction.transaction_id,
                                TransactionInfo_new(0, "Deposit"))],
          result |-> Ok]
    ELSE apply_and_record(client, transaction,
                          deposit(client.state, transaction.amount[1]))

process_deposit(client, transaction) ==
    LET amount == extract_amount(transaction)
    IN IF IsErr(amount)
       THEN [client |-> client, result |-> amount]
       ELSE apply_and_record(client, transaction,
                             deposit(client.state, amount[2]))

process_withdrawal(client, transaction) ==
    LET amount == extract_amount(transaction)
    IN IF IsErr(amount)
       THEN [client |-> client, result |-> amount]
       ELSE apply_and_record(client, transaction,
                             withdraw(client.state, amount[2]))

\* Mutant: a Dispute of an unknown id is reported as an error.
process_dispute_unknown_is_error(client, transaction) ==
    LET id == transaction.transaction_id
    IN IF id \notin DOMAIN client.transactions
          \/ ~can_dispute(client.transactions[id])
       THEN [client |-> client, result |-> Err(CannotDispute(id))]
       ELSE apply_and_mark(client, transaction,
                           dispute(client.state, client.transactions[id].amount),
                           "Disputed")

process_dispute(client, transaction) ==
    LET id == transaction.transaction_id
    IN IF id \notin DOMAIN client.transactions
       THEN [client |-> client, result |-> Ok]
       ELSE IF ~can_dispute(client.transactions[id])
       THEN [client |-> client, result |-> Err(CannotDispute(id))]
       ELSE apply_and_mark(client, transaction,
                           dispute(client.state, client.transactions[id].amount),
                           "Disputed")

\* Mutant: a Resolve of a record in the wrong lifecycle state is ignored.
process_resolve_ignores_wrong_state(client, transaction) ==
    LET id == transaction.transaction_id
    IN IF id \notin DOMAIN client.transactions
          \/ ~can_resolve_or_charge_back(client.transactions[id])
       THEN [client |-> client, result |-> Ok]
       ELSE apply_and_mark(client, transaction,
                           resolve(client.state, client.transactions[id].amount),
                           "Applied")

process_resolve(client, transaction) ==
    LET id == transaction.transaction_id
    IN IF id \notin DOMAIN client.transactions
       THEN [client |-> client, result |-> Ok]
       ELSE IF ~can_resolve_or_charge_back(client.transactions[id])
       THEN [client |-> client, result |-> Err(CannotResolveOrChargeBack(id))]
       ELSE apply_and_mark(client, transaction,
                           resolve(client.state, client.transactions[id].amount),
                           "Applied")

process_chargeback(client, transaction) ==
    LET id == transaction.transaction_id
    IN IF id \notin DOMAIN client.transactions
       THEN [client |-> client, result |-> Ok]
       ELSE IF ~can_resolve_or_charge_back(client.transactions[id])
       THEN [client |-> client, result |-> Err(CannotResolveOrChargeBack(id))]
       ELSE apply_and_mark(client, transaction,
                           chargeback(client.state,
                                      client.transactions[id].amount),
                           "ChargedBack")

process_transaction(client, transaction) ==
    CASE transaction.type = "Deposit" -> process_deposit(client, transaction)
      [] transaction.type = "Withdrawal" -> process_withdrawal(client, transaction)
      [] transaction.type = "Dispute" -> process_dispute(client, transaction)
      [] transaction.type = "Resolve" -> process_resolve(client, transaction)
      [] transaction.type = "Chargeback" -> process_chargeback(client, transaction)

\* ------------------------------------------------------------------ state
VARIABLES
    clients,             \* ProcessingContext.clients: ClientId -> ClientInfo
    transaction_errors,  \* ProcessingContext.transaction_errors
    pc,                  \* "importing", "exporting", "done", "failed"
    consumed,            \* number of input records taken from the importer
    funding,             \* how many of them were Deposit or Withdrawal records
    last,                \* the locals of the loop body: <<>> outside the loop,
                         \* else <<the record just processed, its result and
                         \*    the client entry handed to process_transaction>>
    reported,            \* what report_transaction_errors wrote; None before
    pending,             \* clients the export loop has still to visit
    exported,            \* snapshots the exporter accepted, in order
    outcome,             \* the Result of process_transactions; None while running
    acct,                \* SpecAccount: the ClientState under test
    calls,               \* SpecAccount: number of method calls made
    call,                \* SpecAccount: the last two calls, newest first
    replay,              \* SpecOrder: the ledger of a second processor
    backlog              \* SpecOrder: per client, the records consumed by the
                         \*    first processor and not yet by the second

vars == <<clients, transaction_errors, pc, consumed, funding, last, reported, pending,
          exported, outcome, acct, calls, call, replay, backlog>>

procVars == <<clients, transaction_errors, pc, consumed, funding, last, reported,
              pending, exported, outcome>>
acctVars == <<acct, calls, call>>
orderVars == <<replay, backlog>>
sideVars == <<acct, calls, call, replay, backlog>>

\* The records an importer can yield.  A Resolve or Chargeback record carries
\* no amount; a Dispute record carries none or one the processor never reads.
AmountsOf(type) ==
    CASE type \in {"Deposit", "Withdrawal"} -> {None} \cup {Some(a) : a \in Amounts}
      [] type = "Dispute" -> {None, Some(1)}
      [] OTHER -> {None}

Transactions ==
    UNION {[type : {ty}, client_id : {c},
            transaction_id : TransactionIdsOf(c), amount : AmountsOf(ty)]
           : <<ty, c>> \in TransactionType \X ClientIds}

Init ==
    /\ clients = EmptyMap
    /\ transaction_errors = <<>>
    /\ pc = "importing"
    /\ consumed = 0
    /\ funding = 0
    /\ last = <<>>
    /\ reported = None
    /\ pending = {}
    /\ exported = <<>>
    /\ outcome = None
    /\ acct = ClientState_new(1)
    /\ calls = 0
    /\ call = <<>>
    /\ replay = EmptyMap
    /\ backlog = [c \in ClientIds |-> <<>>]

\* Mutant: the history of transaction records is shared by all clients.
entry_or_insert_shared_history(map, client_id) ==
    IF client_id \in DOMAIN map
    THEN map
    ELSE insert(map, client_id,
                [state |-> ClientState_new(client_id),
                 transactions |->
                    IF DOMAIN map = {}
                    THEN <<>>
                    ELSE map[CHOOSE k \in DOMAIN map : TRUE].transactions])

\* clients.entry(client_id).or_insert_with(...)
entry_or_insert(map, client_id) ==
    IF client_id \in DOMAIN map
    THEN map
    ELSE insert(map, client_id, ClientInfo_new(ClientState_new(client_id)))

IsFunding(transaction) == transaction.type \in {"Deposit", "Withdrawal"}

\* Mutant: a chargeback locks the accounts of all clients.
ProcessRecord_locks_every_client(transaction) ==
    LET c == transaction.client_id
        withEntry == entry_or_insert(clients, c)
        r == process_transaction(withEntry[c], transaction)
        after == [withEntry EXCEPT ![c] = r.client]
    IN /\ pc = "importing"
       /\ consumed < MaxTx
       /\ IsFunding(transaction) => funding < MaxFunding
       /\ IsErr(r.result) => Len(transaction_errors) < MaxErrors
       /\ consumed' = consumed + 1
       /\ funding' = IF IsFunding(transaction) THEN funding + 1 ELSE funding
       /\ clients' = IF r.client.state.locked /\ ~withEntry[c].state.locked
                     THEN [k \in DOMAIN after |->
                              [after[k] EXCEPT !.state.locked = TRUE]]
                     ELSE after
       /\ transaction_errors' =
             IF IsErr(r.result)
             THEN Append(transaction_errors, r.result[2])
             ELSE transaction_errors
       /\ last' = <<[transaction |-> transaction, result |-> r.result,
                     before |-> withEntry[c]]>>
       /\ UNCHANGED <<pc, reported, pending, exported, outcome>>
       /\ UNCHANGED acctVars

\* Mutant: the newest error is put at the front of the list.
ProcessRecord_prepends_errors(transaction) ==
    LET c == transaction.client_id
        withEntry == entry_or_insert(clients, c)
        r == process_transaction(withEntry[c], transaction)
    IN /\ pc = "importing"
       /\ consumed < MaxTx
       /\ IsFunding(transaction) => funding < MaxFunding
       /\ IsErr(r.result) => Len(transaction_errors) < MaxErrors
       /\ consumed' = consumed + 1
       /\ funding' = IF IsFunding(transaction) THEN funding + 1 ELSE funding
       /\ clients' = [withEntry EXCEPT ![c] = r.client]
       /\ transaction_errors' =
             IF IsErr(r.result)
             THEN <<r.result[2]>> \o transaction_errors
             ELSE transaction_errors
       /\ last' = <<[transaction |-> transaction, result |-> r.result,
                     before |-> withEntry[c]]>>
       /\ UNCHANGED <<pc, reported, pending, exported, outcome>>
       /\ UNCHANGED acctVars

\* Mutant: the first transaction error is returned from the loop with `?`.
ProcessRecord_aborts_on_error(transaction) ==
    LET c == transaction.client_id
        withEntry == entry_or_insert(clients, c)
        r == process_transaction(withEntry[c], transaction)
    IN /\ pc = "importing"
       /\ consumed < MaxTx
       /\ IsFunding(transaction) => funding < MaxFunding
       /\ IsErr(r.result) => Len(transaction_errors) < MaxErrors
       /\ consumed' = consumed + 1
       /\ funding' = IF IsFunding(transaction) THEN funding + 1 ELSE funding
       /\ clients' = [withEntry EXCEPT ![c] = r.client]
       /\ last' = <<[transaction |-> transaction, result |-> r.result,
                     before |-> withEntry[c]]>>
       /\ pc' = IF IsErr(r.result) THEN "failed" ELSE pc
       /\ outcome' = IF IsErr(r.result) THEN Some(r.result) ELSE outcome
       /\ UNCHANGED <<transaction_errors, reported, pending, exported>>
       /\ UNCHANGED acctVars

\* One turn of the loop of import_and_process_transactions on an Ok record.
ProcessRecord(transaction) ==
    LET c == transaction.client_id
        withEntry == entry_or_insert(clients, c)
        r == process_transaction(withEntry[c], transaction)
    IN /\ pc = "importing"
       /\ consumed < MaxTx
       /\ IsFunding(transaction) => funding < MaxFunding
       /\ IsErr(r.result) => Len(transaction_errors) < MaxErrors
       /\ consumed' = consumed + 1
       /\ funding' = IF IsFunding(transaction) THEN funding + 1 ELSE funding
       /\ clients' = [withEntry EXCEPT ![c] = r.client]
       /\ transaction_errors' =
             IF IsErr(r.result)
             THEN Append(transaction_errors, r.result[2])
             ELSE transaction_errors
       /\ last' = <<[transaction |-> transaction, result |-> r.result,
                     before |-> withEntry[c]]>>
       /\ UNCHANGED <<pc, reported, pending, exported, outcome>>
       /\ UNCHANGED acctVars

Process ==
    /\ \E transaction \in Transactions : ProcessRecord(transaction)
    /\ UNCHANGED orderVars

\* Mutant: the import loop is left with `break` and the error returned later.
ImportFail_exports_anyway ==
    /\ pc = "importing"
    /\ pc' = "exporting"
    /\ outcome' = Some(Err(ImportError))
    /\ reported' = Some(transaction_errors)
    /\ pending' = DOMAIN clients
    /\ last' = <<>>
    /\ UNCHANGED <<clients, transaction_errors, consumed, funding, exported>>
    /\ UNCHANGED sideVars

\* The importer yields Err: `?` returns ImportError from process_transactions.
ImportFail ==
    /\ pc = "importing"
    /\ pc' = "failed"
    /\ outcome' = Some(Err(ImportError))
    /\ last' = <<>>
    /\ UNCHANGED <<clients, transaction_errors, consumed, funding, reported,
                   pending, exported>>
    /\ UNCHANGED sideVars

\* Mutant: the export begins without report_transaction_errors.
ImportEnd_without_report ==
    /\ pc = "importing"
    /\ pending' = DOMAIN clients
    /\ pc' = "exporting"
    /\ last' = <<>>
    /\ UNCHANGED <<clients, transaction_errors, consumed, funding, reported,
                   exported, outcome>>
    /\ UNCHANGED sideVars

\* The importer is exhausted: the errors are reported and the export begins.
ImportEnd ==
    /\ pc = "importing"
    /\ reported' = Some(transaction_errors)
    /\ pending' = DOMAIN clients
    /\ pc' = "exporting"
    /\ last' = <<>>
    /\ UNCHANGED <<clients, transaction_errors, consumed, funding, exported,
                   outcome>>
    /\ UNCHANGED sideVars

\* Mutant: a client without any transaction record is not exported.
ExportOne_skips_empty ==
    /\ pc = "exporting"
    /\ \E c \in pending :
          /\ exported' = IF clients[c].transactions = <<>>
                         THEN exported
                         ELSE Append(exported, clients[c].state)
          /\ pending' = pending \ {c}
    /\ UNCHANGED <<clients, transaction_errors, pc, consumed, funding, last,
                   reported, outcome>>
    /\ UNCHANGED sideVars

\* One turn of the loop of export_client_states; a hash map yields its
\* values in an order the program does not control.
ExportOne ==
    /\ pc = "exporting"
    /\ \E c \in pending :
          /\ exported' = Append(exported, clients[c].state)
          /\ pending' = pending \ {c}
    /\ UNCHANGED <<clients, transaction_errors, pc, consumed, funding, last,
                   reported, outcome>>
    /\ UNCHANGED sideVars

\* Mutant: a snapshot that cannot be written is skipped.
ExportFail_skips_client ==
    /\ pc = "exporting"
    /\ \E c \in pending : pending' = pending \ {c}
    /\ outcome' = Some(Err(ExportError))
    /\ UNCHANGED <<clients, transaction_errors, pc, consumed, funding, last,
                   reported, exported>>
    /\ UNCHANGED sideVars

\* The exporter returns Err for a snapshot: `?` returns ExportError.
ExportFail ==
    /\ pc = "exporting"
    /\ pending # {}
    /\ pc' = "failed"
    /\ outcome' = Some(Err(ExportError))
    /\ UNCHANGED <<clients, transaction_errors, consumed, funding, last,
                   reported, pending, exported>>
    /\ UNCHANGED sideVars

ExportEnd ==
    /\ pc = "exporting"
    /\ pending = {}
    /\ pc' = "done"
    /\ outcome' = Some(Ok)
    /\ UNCHANGED <<clients, transaction_errors, consumed, funding, last,
                   reported, pending, exported>>
    /\ UNCHANGED sideVars

Next ==
    \/ Process
    \/ ImportFail
    \/ ImportEnd
    \/ ExportOne
    \/ ExportFail
    \/ ExportEnd

Spec == Init /\ [][Next]_vars

\* --------------------------------------------------- one ClientState alone
Methods == {"deposit", "withdraw", "dispute", "resolve", "chargeback"}

invoke(method, self, amount) ==
    CASE method = "deposit" -> deposit(self, amount)
      [] method = "withdraw" -> withdraw(self, amount)
      [] method = "dispute" -> dispute(self, amount)
      [] method = "resolve" -> resolve(self, amount)
      [] method = "chargeback" -> chargeback(self, amount)

Call(method, amount) ==
    LET r == invoke(method, acct, amount)
    IN /\ calls < MaxCalls
       /\ calls' = calls + 1
       /\ acct' = r.state
       /\ call' = <<[method |-> method, amount |-> amount,
                     result |-> r.result, before |-> acct]>>
                  \o SubSeq(call, 1, IF Len(call) = 0 THEN 0 ELSE 1)
       /\ UNCHANGED procVars
       /\ UNCHANGED orderVars

CallDeposit == \E amount \in Amounts : Call("deposit", amount)
CallWithdraw == \E amount \in Amounts : Call("withdraw", amount)
CallDispute == \E amount \in Amounts : Call("dispute", amount)
CallResolve == \E amount \in Amounts : Call("resolve", amount)
CallChargeback == \E amount \in Amounts : Call("chargeback", amount)

NextAccount ==
    \/ CallDeposit
    \/ CallWithdraw
    \/ CallDispute
    \/ CallResolve
    \/ CallChargeback

SpecAccount == Init /\ [][NextAccount]_vars

\* ------------------------------------- the same records in another order
\* A second processor is fed the records of the first one in another order
\* that keeps the order of the records of each client.
MaxReorder == 3

\* The first processor consumes a record.
Arrive ==
    /\ consumed < MaxReorder
    /\ \E transaction \in Transactions :
          /\ ProcessRecord(transaction)
          /\ backlog' = [backlog EXCEPT ![transaction.client_id] =
                                            Append(@, transaction)]
    /\ UNCHANGED replay

\* The second processor consumes the oldest record of some client that it
\* has not consumed yet: one turn of the same loop on its own ledger.
Replay ==
    /\ \E c \in ClientIds :
          /\ backlog[c] # <<>>
          /\ LET transaction == Head(backlog[c])
                 withEntry == entry_or_insert(replay, c)
                 r == process_transaction(withEntry[c], transaction)
             IN replay' = [withEntry EXCEPT ![c] = r.client]
          /\ backlog' = [backlog EXCEPT ![c] = Tail(@)]
    /\ UNCHANGED procVars
    /\ UNCHANGED acctVars

NextOrder ==
    \/ Arrive
    \/ Replay

SpecOrder == Init /\ [][NextOrder]_vars

\* Either system is exercised in a behaviour, never both: the processor runs
\* only while no direct call was made, and direct calls are made only on a
\* processor that has not started.
SpecEither ==
    Init /\ [][\/ (calls = 0 /\ Next)
               \/ (consumed = 0 /\ pc = "importing" /\ NextAccount)]_vars

\* ================================================================= claims
\* The record just processed, for the states inside the loop.
InLoop == last # <<>>
L == last[1]
LClient == L.transaction.client_id
LId == L.transaction.transaction_id
LType == L.transaction.type

\* This step processes a record of the given type for client c.
Processes(c, type) ==
    /\ consumed' = consumed + 1
    /\ last'[1].transaction.client_id = c
    /\ last'[1].transaction.type = type

Balanced(state) == state.total = state.available + state.held
SameFunds(s, t) ==
    s.available = t.available /\ s.held = t.held /\ s.total = t.total

\* C1: in every reachable state every client's account has
\* total = available + held, and so has every snapshot given to the exporter.
C1_TotalIsAvailablePlusHeld ==
    /\ \A c \in DOMAIN clients : Balanced(clients[c].state)
    /\ \A i \in 1..Len(exported) : Balanced(exported[i])

\* A snapshot with held funds and an overdrawn available balance was
\* exported by a run in which a record failed.
C1_Witness ==
    /\ transaction_errors # <<>>
    /\ \E i \in 1..Len(exported) :
          exported[i].held > 0 /\ exported[i].available < 0

\* C2 as claimed: a locked account stays locked, and every Withdrawal
\* processed for it fails with AccountLocked and leaves the funds unchanged.
C2_Original ==
    [][\A c \in DOMAIN clients :
          clients[c].state.locked =>
             /\ clients'[c].state.locked
             /\ Processes(c, "Withdrawal") =>
                   /\ last'[1].result =
                         Err(TransactionError(last'[1].transaction.transaction_id,
                                              AccountLocked))
                   /\ SameFunds(clients'[c].state, clients[c].state)]_vars

\* C2 as amended: a locked account stays locked, and every Withdrawal
\* processed for it leaves the funds unchanged and fails: with AccountLocked
\* when the record carries an amount, with MissingAmount when it carries none.
C2_LockedStaysLocked ==
    [][\A c \in DOMAIN clients :
          clients[c].state.locked =>
             /\ clients'[c].state.locked
             /\ Processes(c, "Withdrawal") =>
                   /\ last'[1].result =
                         IF last'[1].transaction.amount = None
                         THEN Err(MissingAmount(last'[1].transaction.transaction_id))
                         ELSE Err(TransactionError(
                                     last'[1].transaction.transaction_id,
                                     AccountLocked))
                   /\ SameFunds(clients'[c].state, clients[c].state)]_vars

\* A Withdrawal the available funds would cover was refused because the
\* account was locked.
C2_Witness ==
    /\ InLoop
    /\ LType = "Withdrawal"
    /\ L.before.state.locked
    /\ L.transaction.amount # None
    /\ L.transaction.amount[1] >= 0
    /\ L.before.state.available >= L.transaction.amount[1]
    /\ L.result = Err(TransactionError(LId, AccountLocked))

C4_NoDepositOrWithdrawalOnceLocked ==
    (/\ InLoop
     /\ LType \in {"Deposit", "Withdrawal"}
     /\ L.before.state.locked)
    => /\ IsErr(L.result)
       /\ clients[LClient].state = L.before.state

\* C5 as claimed: any of the five methods called with a negative amount
\* returns InvalidAmount and leaves the account unchanged.
C5_Original ==
    (call # <<>> /\ call[1].amount < 0)
    => /\ call[1].result = Err(InvalidAmount(call[1].amount))
       /\ acct = call[1].before

\* C5 as amended: any of the five methods called with a negative amount
\* leaves available, held, total and locked unchanged and returns
\* InvalidAmount, except withdraw on a locked account, which returns
\* AccountLocked.
C5_NegativeAmountRejected ==
    (call # <<>> /\ call[1].amount < 0)
    => /\ call[1].result =
             IF call[1].method = "withdraw" /\ call[1].before.locked
             THEN Err(AccountLocked)
             ELSE Err(InvalidAmount(call[1].amount))
       /\ acct = call[1].before

\* A method other than withdraw was called with a negative amount on a locked
\* account that holds funds.
C5_Witness ==
    /\ call # <<>>
    /\ call[1].amount < 0
    /\ call[1].method = "chargeback"
    /\ call[1].before.locked
    /\ call[1].before.held > 0

\* This step processes a record for client c that carries transaction id.
ProcessesId(c, id) ==
    /\ consumed' = consumed + 1
    /\ last'[1].transaction.client_id = c
    /\ last'[1].transaction.transaction_id = id

\* This step leaves every client entry as it was, and a client c that had no
\* entry gets a fresh one.
OnlyFreshEntry(c) ==
    /\ DOMAIN clients' = DOMAIN clients \cup {c}
    /\ \A k \in DOMAIN clients' :
          clients'[k] = IF k \in DOMAIN clients
                        THEN clients[k]
                        ELSE [state |-> [client_id |-> k, available |-> 0,
                                         held |-> 0, total |-> 0,
                                         locked |-> FALSE],
                              transactions |-> <<>>]

\* C6: a record whose processing returns an error leaves the client's
\* available, held, total, locked and whole history as they were (a client
\* seen for the first time is left with a zero, unlocked, empty entry), and
\* so every other client's.
C6_AllOrNothing ==
    [][(consumed' = consumed + 1 /\ IsErr(last'[1].result))
          => OnlyFreshEntry(last'[1].transaction.client_id)]_vars

\* A record failed on a client that has held funds and a history to lose.
C6_Witness ==
    /\ InLoop
    /\ IsErr(L.result)
    /\ L.before.state.held > 0
    /\ L.before.state.available > 0
    /\ L.before.transactions # <<>>

\* C7: dispute(amount) followed at once by resolve(amount), amount >= 0, both
\* succeed and leave available, held and total as before the dispute; in the
\* processor a Dispute that was applied, followed at once by a Resolve of the
\* same id, succeeds, restores the funds and returns the record to Applied.
C7_AccountRoundTrip ==
    (/\ Len(call) = 2
     /\ call[2].method = "dispute"
     /\ call[1].method = "resolve"
     /\ call[2].amount >= 0
     /\ call[1].amount = call[2].amount)
    => /\ call[2].result = Ok
       /\ call[1].result = Ok
       /\ SameFunds(acct, call[2].before)

C7_ProcessorRoundTrip ==
    (/\ InLoop
     /\ LType = "Dispute"
     /\ L.result = Ok
     /\ LId \in DOMAIN L.before.transactions
     /\ Processes(LClient, "Resolve")
     /\ last'[1].transaction.transaction_id = LId)
    => /\ last'[1].result = Ok
       /\ SameFunds(clients'[LClient].state, L.before.state)
       /\ clients'[LClient].transactions[LId].state = "Applied"
       /\ clients'[LClient].transactions = L.before.transactions

C7_RoundTrip == []C7_AccountRoundTrip /\ [][C7_ProcessorRoundTrip]_vars

\* A positive amount was disputed and resolved on an account that already
\* held funds.
C7_Witness ==
    /\ Len(call) = 2
    /\ call[2].method = "dispute"
    /\ call[1].method = "resolve"
    /\ call[2].amount > 0
    /\ call[1].amount = call[2].amount
    /\ call[2].before.held > 0
    /\ call[1].result = Ok

\* The processor resolved a disputed deposit of a positive amount.
C7_WitnessProcessor ==
    /\ InLoop
    /\ LType = "Resolve"
    /\ L.result = Ok
    /\ LId \in DOMAIN L.before.transactions
    /\ L.before.transactions[LId].amount > 0
    /\ clients[LClient].transactions[LId].state = "Applied"

\* The three lifecycle steps: the record of (c, id) goes from old to new in a
\* step that processes the matching record with success.
LifecycleStep(c, id, old, new) ==
    /\ ProcessesId(c, id)
    /\ last'[1].result = Ok
    /\ \/ Processes(c, "Dispute") /\ old = "Applied" /\ new = "Disputed"
       \/ Processes(c, "Resolve") /\ old = "Disputed" /\ new = "Applied"
       \/ Processes(c, "Chargeback") /\ old = "Disputed" /\ new = "ChargedBack"

\* The record of (c, id) is replaced by a successful Deposit or Withdrawal
\* that carries the same id.
Replaced(c, id) ==
    /\ ProcessesId(c, id)
    /\ last'[1].result = Ok
    /\ last'[1].transaction.type \in {"Deposit", "Withdrawal"}
    /\ clients'[c].transactions[id] =
          [amount |-> last'[1].transaction.amount[1], state |-> "Applied",
           type |-> last'[1].transaction.type]

\* C8 as claimed: the lifecycle of a record changes only by Applied ->
\* Disputed on a successful Dispute, Disputed -> Applied on a successful
\* Resolve, Disputed -> ChargedBack on a successful Chargeback.
C8_Original ==
    [][\A c \in DOMAIN clients : \A id \in DOMAIN clients[c].transactions :
          /\ id \in DOMAIN clients'[c].transactions
          /\ clients'[c].transactions[id].state # clients[c].transactions[id].state
                => LifecycleStep(c, id, clients[c].transactions[id].state,
                                 clients'[c].transactions[id].state)]_vars

\* C8 as amended: the lifecycle of a record changes only by those three
\* steps, or when a successful Deposit or Withdrawal that reuses the id
\* replaces the record by a new Applied one.
C8_LifecycleSteps ==
    [][\A c \in DOMAIN clients : \A id \in DOMAIN clients[c].transactions :
          /\ id \in DOMAIN clients'[c].transactions
          /\ clients'[c].transactions[id].state # clients[c].transactions[id].state
                => \/ LifecycleStep(c, id, clients[c].transactions[id].state,
                                    clients'[c].transactions[id].state)
                   \/ Replaced(c, id)]_vars

\* A disputed deposit of a positive amount was charged back.
C8_Witness ==
    /\ InLoop
    /\ LType = "Chargeback"
    /\ L.result = Ok
    /\ LId \in DOMAIN L.before.transactions
    /\ L.before.transactions[LId].state = "Disputed"
    /\ L.before.transactions[LId].amount > 0
    /\ clients[LClient].transactions[LId].state = "ChargedBack"

C10_UnknownReferenceIgnored ==
    [][(/\ consumed' = consumed + 1
        /\ last'[1].transaction.type \in {"Dispute", "Resolve", "Chargeback"}
        /\ \/ last'[1].transaction.client_id \notin DOMAIN clients
           \/ last'[1].transaction.transaction_id \notin
                 DOMAIN clients[last'[1].transaction.client_id].transactions)
          => /\ last'[1].result = Ok
             /\ transaction_errors' = transaction_errors
             /\ OnlyFreshEntry(last'[1].transaction.client_id)]_vars

\* A client with funds and a history sent a Dispute, Resolve or Chargeback
\* of an id that is not in its history.
C10_Witness ==
    /\ InLoop
    /\ LType \in {"Dispute", "Resolve", "Chargeback"}
    /\ L.before.transactions # <<>>
    /\ LId \notin DOMAIN L.before.transactions
    /\ L.before.state.total > 0
    /\ L.result = Ok

\* The record that the Dispute, Resolve or Chargeback just processed refers
\* to, as it was before.
Referenced == L.before.transactions[LId]
RefersToRecord ==
    /\ InLoop
    /\ LType \in {"Dispute", "Resolve", "Chargeback"}
    /\ LId \in DOMAIN L.before.transactions

\* C11: a Dispute that refers to a Withdrawal record fails with CannotDispute
\* and leaves the client's balances, lock flag and history unchanged; no
\* Withdrawal record is ever in another lifecycle state than Applied.
C11_WithdrawalNotDisputable ==
    /\ (RefersToRecord /\ LType = "Dispute" /\ Referenced.type = "Withdrawal")
          => /\ L.result = Err(CannotDispute(LId))
             /\ clients[LClient] = L.before
    /\ \A c \in DOMAIN clients : \A id \in DOMAIN clients[c].transactions :
          clients[c].transactions[id].type = "Withdrawal"
             => clients[c].transactions[id].state = "Applied"

\* A Dispute of a Withdrawal of a positive amount was refused.
C11_Witness ==
    /\ RefersToRecord
    /\ LType = "Dispute"
    /\ Referenced.type = "Withdrawal"
    /\ Referenced.amount > 0
    /\ L.result = Err(CannotDispute(LId))

\* C12: a Dispute of a record that is Disputed or ChargedBack returns
\* CannotDispute, a Resolve or Chargeback of a record that is Applied or
\* ChargedBack returns CannotResolveOrChargeBack; the error is appended to the
\* error list and the run goes on.
C12_WrongLifecycleIsRecoverable ==
    [][(/\ consumed' = consumed + 1
        /\ last'[1].transaction.type \in {"Dispute", "Resolve", "Chargeback"}
        /\ last'[1].transaction.transaction_id \in
              DOMAIN last'[1].before.transactions)
          => LET t == last'[1].transaction
                 id == t.transaction_id
                 rec == last'[1].before.transactions[id]
                 wrong == IF t.type = "Dispute"
                          THEN rec.state \in {"Disputed", "ChargedBack"}
                          ELSE rec.state \in {"Applied", "ChargedBack"}
                 error == IF t.type = "Dispute"
                          THEN CannotDispute(id)
                          ELSE CannotResolveOrChargeBack(id)
             IN wrong =>
                   /\ last'[1].result = Err(error)
                   /\ transaction_errors' = Append(transaction_errors, error)
                   /\ pc' = "importing"
                   /\ outcome' = None]_vars

\* A Resolve of a deposit that was never disputed was refused.
C12_Witness ==
    /\ RefersToRecord
    /\ LType = "Resolve"
    /\ Referenced.state = "Applied"
    /\ Referenced.amount > 0
    /\ L.result = Err(CannotResolveOrChargeBack(LId))
    /\ transaction_errors = <<CannotResolveOrChargeBack(LId)>>

\* What processing `transaction` against the ledger `map` returns and makes
\* of the client's entry.
ProcessedAgainst(map, transaction) ==
    process_transaction(
        entry_or_insert(map, transaction.client_id)[transaction.client_id],
        transaction)

C13_ErrorDoesNotAbort ==
    /\ (InLoop /\ IsErr(L.result)) => (pc = "importing" /\ outcome = None)
    /\ pc = "done" => outcome = Some(Ok)
    /\ pc = "failed" => outcome \in {Some(Err(ImportError)), Some(Err(ExportError))}
    /\ pc \in {"importing", "exporting"} => outcome = None

C13_AsIfAbsent ==
    (consumed' = consumed + 1 /\ IsErr(last'[1].result))
       => /\ \A k \in DOMAIN clients : clients'[k] = clients[k]
          /\ DOMAIN clients' # DOMAIN clients
                => \A transaction \in Transactions :
                      ProcessedAgainst(clients', transaction)
                         = ProcessedAgainst(clients, transaction)

\* C13: a transaction error never ends the run: the run fails only with
\* ImportError or ExportError and otherwise returns Ok; and after a record
\* that failed, every transaction that may come next returns the same result
\* and leaves the same client entry as it would have without that record.
C13_ContinueOnError == []C13_ErrorDoesNotAbort /\ [][C13_AsIfAbsent]_vars

\* A run with two failed records, followed by an accepted deposit, returned Ok.
C13_Witness ==
    /\ pc = "done"
    /\ outcome = Some(Ok)
    /\ Len(transaction_errors) = 2
    /\ consumed >= 3
    /\ \E c \in DOMAIN clients : clients[c].state.available > 0

C14_ReportedAsCollected ==
    /\ Len(transaction_errors) <= consumed
    /\ pc = "importing" => reported = None
    /\ pc \in {"exporting", "done"} => reported = Some(transaction_errors)
    /\ reported # None => reported = Some(transaction_errors)

C14_GrowsByAppending ==
    IF consumed' = consumed + 1
    THEN transaction_errors' =
            IF IsErr(last'[1].result)
            THEN Append(transaction_errors, last'[1].result[2])
            ELSE transaction_errors
    ELSE consumed' = consumed /\ transaction_errors' = transaction_errors

\* C14: every processed record whose result is an error appends that error
\* to the error list, every other record and every other step leaves the
\* list as it is, so the list holds one entry per failed record in input
\* order; the list that is reported at the end of the input is this list.
C14_ErrorListCompleteInOrder ==
    []C14_ReportedAsCollected /\ [][C14_GrowsByAppending]_vars

\* Two different errors were reported in the order of their records, with
\* records in the input that left no entry.
C14_Witness ==
    /\ pc = "done"
    /\ reported # None
    /\ Len(reported[1]) = 2
    /\ reported[1][1][1] = "MissingAmount"
    /\ reported[1][2][1] = "TransactionError"
    /\ consumed = 4

ExportedClients == {exported[i].client_id : i \in 1..Len(exported)}

C15_OneSnapshotPerClient ==
    /\ \A i, j \in 1..Len(exported) :
          exported[i].client_id = exported[j].client_id => i = j
    /\ \A i \in 1..Len(exported) :
          /\ exported[i].client_id \in DOMAIN clients
          /\ exported[i] = clients[exported[i].client_id].state
    /\ pc = "done" => ExportedClients = DOMAIN clients

\* The ledger has an entry for exactly the clients of the records consumed;
\* a record that failed or was ignored leaves the entry as it was, which for
\* a client seen for the first time is zero, unlocked and empty.
C15_EntryPerInputClient ==
    IF consumed' = consumed + 1
    THEN LET t == last'[1].transaction
             c == t.client_id
             ignored == /\ t.type \in {"Dispute", "Resolve", "Chargeback"}
                        /\ t.transaction_id \notin
                              DOMAIN last'[1].before.transactions
         IN /\ DOMAIN clients' = DOMAIN clients \cup {c}
            /\ last'[1].before =
                  IF c \in DOMAIN clients
                  THEN clients[c]
                  ELSE [state |-> [client_id |-> c, available |-> 0,
                                   held |-> 0, total |-> 0, locked |-> FALSE],
                        transactions |-> <<>>]
            /\ (IsErr(last'[1].result) \/ ignored)
                  => clients'[c] = last'[1].before
    ELSE clients' = clients

\* C15: when the run returns Ok the exporter has received one snapshot for
\* every client id of a consumed record and for no other, each once; a client
\* all of whose records failed or were ignored is exported with zero balances
\* and unlocked.
C15_ExportsEveryClientSeen ==
    []C15_OneSnapshotPerClient /\ [][C15_EntryPerInputClient]_vars

\* Two clients were exported: one whose only records failed or were ignored,
\* with zero balances, and one with funds.
C15_Witness ==
    /\ pc = "done"
    /\ Len(exported) = 2
    /\ transaction_errors # <<>>
    /\ \E i, j \in 1..2 :
          /\ clients[exported[i].client_id].transactions = <<>>
          /\ exported[i].available = 0 /\ exported[i].held = 0
          /\ exported[i].total = 0 /\ ~exported[i].locked
          /\ exported[j].total > 0

\* C16: once the importer has yielded a failure the run has ended with
\* ImportError: no step is possible any more, so no later record is applied,
\* the errors are not reported and no snapshot has reached or will reach the
\* exporter.
C16_ImportFailureIsFatal ==
    outcome = Some(Err(ImportError))
       => /\ pc = "failed"
          /\ ~ENABLED Next
          /\ exported = <<>>
          /\ pending = {}
          /\ reported = None

\* The importer failed after records of two clients had been applied.
C16_Witness ==
    /\ outcome = Some(Err(ImportError))
    /\ consumed >= 2
    /\ Cardinality(DOMAIN clients) = 2
    /\ \A c \in DOMAIN clients : clients[c].state.total > 0

\* C17: once the exporter has failed on a snapshot the run has ended with
\* ExportError: no step is possible any more, so the snapshots of the clients
\* that were still to come are never passed to the exporter, and none of them
\* was passed before.
C17_ExportFailureIsFatal ==
    outcome = Some(Err(ExportError))
       => /\ pc = "failed"
          /\ ~ENABLED Next
          /\ pending # {}
          /\ pending \cap ExportedClients = {}
          /\ pending \cup ExportedClients = DOMAIN clients

\* The exporter failed on the second of two clients.
C17_Witness ==
    /\ outcome = Some(Err(ExportError))
    /\ Len(exported) = 1
    /\ Cardinality(pending) = 1

C18_ExportAfterImport ==
    /\ pc = "importing" => (exported = <<>> /\ pending = {})
    /\ (exported # <<>> \/ pending # {})
          => (reported = Some(transaction_errors) /\ last = <<>>)
    /\ \A i \in 1..Len(exported) :
          /\ exported[i] = clients[exported[i].client_id].state
          /\ \A j \in 1..Len(exported) :
                exported[j].client_id = exported[i].client_id => j = i

C18_LedgerFinalOnceExporting ==
    /\ pc # "importing"
          => /\ pc' # "importing"
             /\ clients' = clients
             /\ consumed' = consumed
             /\ reported' = reported
    /\ \/ exported' = exported
       \/ /\ Len(exported') = Len(exported) + 1
          /\ SubSeq(exported', 1, Len(exported)) = exported

\* C18: while records are being consumed nothing is exported; a snapshot is
\* exported only after the input has ended and the errors have been reported;
\* from then on no record is consumed and the ledger does not change, so each
\* snapshot, exported once, is the client's final state.
C18_PhaseOrdering ==
    []C18_ExportAfterImport /\ [][C18_LedgerFinalOnceExporting]_vars

\* Both clients were exported after a run in which an error was reported.
C18_Witness ==
    /\ pc = "done"
    /\ Len(exported) = 2
    /\ reported # None
    /\ reported[1] # <<>>
    /\ \E i \in 1..2 : exported[i].locked

\* C19: a Deposit or Withdrawal without amount returns MissingAmount for its
\* transaction id whatever the state of the account, leaves the client's
\* balances, lock flag and records as they were, and the error is the newest
\* entry of the error list of a run that goes on.
C19_MissingAmountRejected ==
    (InLoop /\ LType \in {"Deposit", "Withdrawal"} /\ L.transaction.amount = None)
       => /\ L.result = Err(MissingAmount(LId))
          /\ clients[LClient] = L.before
          /\ transaction_errors # <<>>
          /\ transaction_errors[Len(transaction_errors)] = MissingAmount(LId)
          /\ pc = "importing"
          /\ outcome = None

\* A Deposit without amount, with the id of an existing record, was refused
\* on a locked account.
C19_Witness ==
    /\ InLoop
    /\ LType = "Deposit"
    /\ L.transaction.amount = None
    /\ L.before.state.locked
    /\ LId \in DOMAIN L.before.transactions
    /\ L.result = Err(MissingAmount(LId))

\* C20: a second processor that consumes the same records in any other order
\* that keeps the order of each client's records has, for every client whose
\* records it has all consumed, the same balances, lock flag and history as
\* the first; so both ledgers are equal once it has consumed them all.
C20_CrossClientOrderIrrelevant ==
    /\ \A c \in DOMAIN clients :
          backlog[c] = <<>> => (c \in DOMAIN replay /\ replay[c] = clients[c])
    /\ (\A c \in ClientIds : backlog[c] = <<>>) => replay = clients

\* Both processors have consumed the same three records of two clients, one
\* left with a deposit under dispute and the other with available funds.
C20_Witness ==
    /\ consumed = MaxReorder
    /\ \A c \in ClientIds : backlog[c] = <<>>
    /\ replay = clients
    /\ DOMAIN clients = ClientIds
    /\ clients[1].state.held > 0
    /\ clients[2].state.available > 0

\* C21: a record of client c is processed against c's own entry, a fresh one
\* if c has none, and leaves the entry of every other client as it was; a
\* Dispute, Resolve or Chargeback of c whose id has a record only in the
\* history of another client returns Ok and changes nothing of c either.
C21_PerClientFrame ==
    [][consumed' = consumed + 1
          => LET t == last'[1].transaction
                 c == t.client_id
                 own == IF c \in DOMAIN clients
                        THEN clients[c]
                        ELSE [state |-> [client_id |-> c, available |-> 0,
                                         held |-> 0, total |-> 0,
                                         locked |-> FALSE],
                              transactions |-> <<>>]
             IN /\ DOMAIN clients' = DOMAIN clients \cup {c}
                /\ \A k \in DOMAIN clients \ {c} : clients'[k] = clients[k]
                /\ last'[1].before = own
                /\ (/\ t.type \in {"Dispute", "Resolve", "Chargeback"}
                    /\ t.transaction_id \notin DOMAIN own.transactions
                    /\ \E k \in DOMAIN clients \ {c} :
                          t.transaction_id \in DOMAIN clients[k].transactions)
                      => /\ last'[1].result = Ok
                         /\ clients'[c] = own
                         /\ transaction_errors' = transaction_errors]_vars

\* A client with funds sent a Dispute, Resolve or Chargeback of an id under
\* which only another client has a deposit on record.
C21_Witness ==
    /\ InLoop
    /\ LType \in {"Dispute", "Resolve", "Chargeback"}
    /\ LId \notin DOMAIN L.before.transactions
    /\ L.before.state.available > 0
    /\ \E k \in DOMAIN clients \ {LClient} :
          /\ LId \in DOMAIN clients[k].transactions
          /\ clients[k].transactions[LId].type = "Deposit"
          /\ clients[k].transactions[LId].state = "Applied"
          /\ clients[k].state.available > 0
    /\ L.result = Ok
    /\ clients[LClient] = L.before

\* C22: the ids on record for a client after a record was processed are those
\* on record before, plus the id of the record if it is a Deposit or
\* Withdrawal that returned Ok; every record is of type Deposit or Withdrawal;
\* a Dispute, Resolve or Chargeback whose id is not on record returns Ok and
\* leaves the client's entry as it was.
C22_RecordsOnlyFromAppliedFunding ==
    /\ \A c \in DOMAIN clients : \A id \in DOMAIN clients[c].transactions :
          clients[c].transactions[id].type \in {"Deposit", "Withdrawal"}
    /\ InLoop
          => /\ DOMAIN clients[LClient].transactions =
                   DOMAIN L.before.transactions
                      \cup (IF LType \in {"Deposit", "Withdrawal"}
                               /\ L.result = Ok
                            THEN {LId}
                            ELSE {})
             /\ (/\ LType \in {"Dispute", "Resolve", "Chargeback"}
                 /\ LId \notin DOMAIN L.before.transactions)
                   => (L.result = Ok /\ clients[LClient] = L.before)

\* Client 1 sent a Deposit or Withdrawal with id 2 that failed, and then a
\* Dispute, Resolve or Chargeback of id 2, which found no record.
C22_Witness ==
    /\ InLoop
    /\ LClient = 1
    /\ LId = 2
    /\ LType \in {"Dispute", "Resolve", "Chargeback"}
    /\ LId \notin DOMAIN L.before.transactions
    /\ L.before.state.available > 0
    /\ L.result = Ok
    /\ \E i \in 1..Len(transaction_errors) :
          transaction_errors[i] \in
             {TransactionError(2, InsufficientFunds),
              TransactionError(2, InvalidAmount(-1))}

\* C23: after a Deposit or Withdrawal that returned Ok the client's record
\* under its id holds the amount and type of that transaction in state
\* Applied, whether or not the id had a record before and whatever the state
\* of that record; held is as before and the other records are unchanged.
C23_RecordReplacedOnSuccess ==
    (InLoop /\ LType \in {"Deposit", "Withdrawal"} /\ L.result = Ok)
       => /\ clients[LClient].transactions[LId] =
                [amount |-> L.transaction.amount[1], state |-> "Applied",
                 type |-> LType]
          /\ clients[LClient].state.held = L.before.state.held
          /\ \A id \in DOMAIN L.before.transactions \ {LId} :
                clients[LClient].transactions[id] = L.before.transactions[id]

\* A deposit replaced a record of another amount that was under dispute,
\* leaving the held funds of that dispute in place.
C23_Witness ==
    /\ InLoop
    /\ LType = "Deposit"
    /\ L.result = Ok
    /\ LId \in DOMAIN L.before.transactions
    /\ L.before.transactions[LId].state = "Disputed"
    /\ L.before.transactions[LId].amount # L.transaction.amount[1]
    /\ L.before.state.held > 0
    /\ clients[LClient].state.held = L.before.state.held
    /\ clients[LClient].transactions[LId].state = "Applied"

\* C24: a Dispute of a Deposit record in state Applied returns Ok, takes the
\* amount stored in the record from available and adds it to held, leaves
\* total and the lock flag as they were and marks the record Disputed; the
\* amount the Dispute carries, the lock and the available funds play no part.
C24_DisputeMovesStoredAmount ==
    (/\ RefersToRecord
     /\ LType = "Dispute"
     /\ Referenced.type = "Deposit"
     /\ Referenced.state = "Applied")
       => /\ L.result = Ok
          /\ clients[LClient].state =
                [L.before.state EXCEPT !.available = @ - Referenced.amount,
                                       !.held = @ + Referenced.amount]
          /\ clients[LClient].transactions =
                [L.before.transactions EXCEPT ![LId].state = "Disputed"]

\* A Dispute that carries an amount other than the one on record took
\* available below zero, part of the deposit being already withdrawn.
C24_Witness ==
    /\ RefersToRecord
    /\ LType = "Dispute"
    /\ Referenced.type = "Deposit"
    /\ Referenced.state = "Applied"
    /\ L.transaction.amount # None
    /\ L.transaction.amount[1] # Referenced.amount
    /\ L.before.state.available < Referenced.amount
    /\ L.before.state.available >= 0
    /\ L.result = Ok
    /\ clients[LClient].state.available < 0

\* C25: withdraw returns AccountLocked on a locked account, else
\* InvalidAmount on a negative amount, else InsufficientFunds when available
\* is below the amount, and changes nothing in these cases; otherwise it
\* returns Ok, takes the amount from available and from total and leaves
\* available at zero or above.
C25_WithdrawGuardOrder ==
    (call # <<>> /\ call[1].method = "withdraw")
       => LET self == call[1].before
              amount == call[1].amount
          IN /\ call[1].result =
                   IF self.locked THEN Err(AccountLocked)
                   ELSE IF amount < 0 THEN Err(InvalidAmount(amount))
                   ELSE IF self.available < amount THEN Err(InsufficientFunds)
                   ELSE Ok
             /\ IsErr(call[1].result) => acct = self
             /\ call[1].result = Ok
                   => /\ acct = [self EXCEPT !.available = @ - amount,
                                             !.total = @ - amount]
                      /\ acct.available >= 0

\* A withdrawal of a negative amount, more than is available, was refused on
\* a locked account with AccountLocked.
C25_Witness ==
    /\ call # <<>>
    /\ call[1].method = "withdraw"
    /\ call[1].before.locked
    /\ call[1].amount < 0
    /\ call[1].before.available < call[1].amount
    /\ call[1].result = Err(AccountLocked)

\* C26: the held balance of every client, in the ledger and in every
\* exported snapshot, is zero or above.
C26_HeldNeverNegative ==
    /\ \A c \in DOMAIN clients : clients[c].state.held >= 0
    /\ \A i \in 1..Len(exported) : exported[i].held >= 0

\* A client has funds held while its available balance is below zero.
C26_Witness ==
    \E c \in DOMAIN clients :
       /\ clients[c].state.held > 0
       /\ clients[c].state.available < 0
       /\ clients[c].state.total > 0

\* The sum of the amounts of the records of a history that are in state
\* Disputed.
RECURSIVE DisputedSum(_, _)
DisputedSum(transactions, ids) ==
    IF ids = {}
    THEN 0
    ELSE LET id == CHOOSE id \in ids : TRUE
         IN (IF transactions[id].state = "Disputed"
             THEN transactions[id].amount
             ELSE 0) + DisputedSum(transactions, ids \ {id})

DisputedAmount(client) ==
    DisputedSum(client.transactions, DOMAIN client.transactions)

\* C27: the held balance of every client is at least the sum of the amounts
\* of its records in state Disputed, ids reused or not, and a Resolve or
\* Chargeback of a record in state Disputed returns Ok.
C27_HeldCoversOpenDisputes ==
    /\ \A c \in DOMAIN clients :
          clients[c].state.held >= DisputedAmount(clients[c])
    /\ (/\ RefersToRecord
        /\ LType \in {"Resolve", "Chargeback"}
        /\ Referenced.state = "Disputed")
          => L.result = Ok

\* A Resolve or Chargeback was applied for a client that, after an id was
\* reused, had more funds held than its open disputes account for.
C27_Witness ==
    /\ RefersToRecord
    /\ LType \in {"Resolve", "Chargeback"}
    /\ Referenced.state = "Disputed"
    /\ Referenced.amount > 0
    /\ L.before.state.held > DisputedAmount(L.before)
    /\ L.result = Ok

HeldIsDisputed(map) ==
    \A c \in DOMAIN map : map[c].state.held = DisputedAmount(map[c])

\* This step applies a Deposit or Withdrawal whose id the client already has
\* on record.
ReusesId ==
    /\ consumed' = consumed + 1
    /\ last'[1].transaction.type \in {"Deposit", "Withdrawal"}
    /\ last'[1].result = Ok
    /\ last'[1].transaction.transaction_id \in
          DOMAIN last'[1].before.transactions

\* C28: the held balance of every client equals the sum of the amounts of its
\* records in state Disputed for as long as no Deposit or Withdrawal is
\* applied under an id the client already has on record: the equality holds
\* of the empty ledger and every step that reuses no id keeps it.
C28_HeldIsOpenDisputes ==
    [][(clients' # clients /\ HeldIsDisputed(clients) /\ ~ReusesId)
          => HeldIsDisputed(clients')]_vars

\* Two deposits of one client are under dispute and its held balance is the
\* sum of both.
C28_Witness ==
    \E c \in DOMAIN clients :
       /\ \A id \in TransactionIdsOf(c) :
             /\ id \in DOMAIN clients[c].transactions
             /\ clients[c].transactions[id].state = "Disputed"
             /\ clients[c].transactions[id].amount > 0
       /\ Cardinality(TransactionIdsOf(c)) = 2
       /\ funding = 2
       /\ clients[c].state.held = DisputedAmount(clients[c])
       /\ clients[c].state.held >= 2

\* This record is a Chargeback of a record in state Disputed that returned Ok.
ChargebackApplied ==
    /\ RefersToRecord
    /\ LType = "Chargeback"
    /\ Referenced.state = "Disputed"
    /\ L.result = Ok

C29_LockInProcessor ==
    InLoop
       => /\ clients[LClient].state.locked =
                (L.before.state.locked \/ ChargebackApplied)
          /\ (L.before.state.locked
              /\ LType \in {"Dispute", "Resolve", "Chargeback"})
                => LET r == process_transaction(
                                [L.before EXCEPT !.state.locked = FALSE],
                                L.transaction)
                   IN /\ L.result = r.result
                      /\ clients[LClient] =
                            [r.client EXCEPT !.state.locked = TRUE]

C29_LockInAccount ==
    call # <<>>
       => /\ acct.locked =
                (call[1].before.locked
                 \/ (call[1].method = "chargeback" /\ call[1].result = Ok))
          /\ (call[1].before.locked
              /\ call[1].method \in {"dispute", "resolve", "chargeback"})
                => LET r == invoke(call[1].method,
                                   [call[1].before EXCEPT !.locked = FALSE],
                                   call[1].amount)
                   IN /\ call[1].result = r.result
                      /\ acct = [r.state EXCEPT !.locked = TRUE]

====
